---- MODULE Spec2Model ----
(***************************************************************************)
(* Model of spartanews/articles/views.py: the content feed (filter,        *)
(* annotate, order), the owner-gated update / soft delete of content and   *)
(* comments, and the like / favorite toggles.  Every handler is split at   *)
(* its database accesses, so that requests served by different workers     *)
(* interleave exactly where the code reads and writes the store.           *)
(***************************************************************************)
EXTENDS Integers, Sequences, FiniteSets, Bags, TLC

(* ------------------------------ bounds --------------------------------- *)
NumUsers == 2          \* registered users 1..NumUsers
NumWorkers == 2        \* requests the transport serves in parallel
MaxContent == 2        \* rows of ContentInfo ever created
MaxComment == 2        \* rows of CommentInfo ever created
MaxDay == 2            \* whole days the clock may advance
MaxSubDay == 2         \* ticks past midnight the clock may advance
TicksPerSecond == 2    \* clock resolution (stands for 1000 * 1000 microseconds)

(* --------------------------- program constants ------------------------- *)
SecondsPerDay == 86400
TicksPerDay == TicksPerSecond * SecondsPerDay

HTTP_200_OK == 200
HTTP_201_CREATED == 201
HTTP_202_ACCEPTED == 202
HTTP_204_NO_CONTENT == 204
HTTP_400_BAD_REQUEST == 400
HTTP_403_FORBIDDEN == 403
HTTP_404_NOT_FOUND == 404
HTTP_406_NOT_ACCEPTABLE == 406
HTTP_500_INTERNAL_SERVER_ERROR == 500

Users == 1..NumUsers
Anonymous == 0                       \* request.user of an unauthenticated request
Workers == 1..NumWorkers
Kinds == {"content_favorite", "content_like", "comment_like"}

VARIABLES
    contentInfo,          \* table ContentInfo: row i has pk i
    commentInfo,          \* table CommentInfo: row i has pk i
    favorite_contents,    \* m2m UserInfo.favorite_contents: bag of <<user, content>> rows
    liked_contents,       \* m2m UserInfo.liked_contents: bag of <<user, content>> rows
    liked_comments,       \* m2m UserInfo.liked_comments: bag of <<user, comment>> rows
    now,                  \* timezone.now(), in ticks
    req,                  \* per worker: the request being handled and its locals
    resp,                 \* per worker: the response to its last request
    toggleLog             \* the last two toggles completed, where requests are
                          \* served one at a time (observation only)

vars == <<contentInfo, commentInfo, favorite_contents, liked_contents,
          liked_comments, now, req, resp, toggleLog>>
tables == <<contentInfo, commentInfo>>
relations == <<favorite_contents, liked_contents, liked_comments>>

(* ------------------------------ requests ------------------------------- *)
NoRow == [userinfo |-> 0]
NoData == [valid |-> TRUE, body |-> ""]
NoRequest == [op |-> "", model |-> "", user |-> 0, id |-> 0, valid |-> TRUE]
Idle == [op |-> "idle", pc |-> "idle", model |-> "", user |-> 0, id |-> 0,
         exists |-> FALSE, row |-> NoRow, data |-> NoData,
         before |-> FALSE, overlapped |-> {}]
NoResp == [status |-> 0, message |-> "", user |-> 0, content_id |-> 0, body |-> <<>>,
           request |-> NoRequest, before |-> FALSE, overlapped |-> {}]

Response(st) == [NoResp EXCEPT !.status = st]
Answer(st, request) == [NoResp EXCEPT !.status = st, !.request = request]

ContentIds == 1..Len(contentInfo)
CommentIds == 1..Len(commentInfo)

(* ------------------------------ toggles -------------------------------- *)
Relation(kind) ==
    CASE kind = "content_favorite" -> favorite_contents
      [] kind = "content_like"     -> liked_contents
      [] kind = "comment_like"     -> liked_comments

\* a faulty TargetIds: the target is looked up among the visible rows only
TargetIdsVisible(kind) ==
    IF kind = "comment_like" THEN {k \in CommentIds : commentInfo[k].is_visible}
    ELSE {c \in ContentIds : contentInfo[c].is_visible}

\* get_object_or_404(ContentInfo / CommentInfo, id=...): the ids it finds
TargetIds(kind) == IF kind = "comment_like" THEN CommentIds ELSE ContentIds

CanceledMessage(kind) ==
    CASE kind = "content_favorite" -> "Favorite content canceled."
      [] kind = "content_like"     -> "Like content canceled."
      [] kind = "comment_like"     -> "Like comment canceled."

SuccessMessage(kind) ==
    CASE kind = "content_favorite" -> "Favorite content success."
      [] kind = "content_like"     -> "Like content success."
      [] kind = "comment_like"     -> "Like comment success."

\* the rows of a relation that link user u to target id
Has(rel, u, id) == BagIn(<<u, id>>, rel)

\* a faulty M2MAdd: a plain INSERT, the relation has no unique key
M2MAddPlainInsert(rel, u, id) == rel (+) SetToBag({<<u, id>>})

\* me.<relation>.add(target): insert the (user, target) row unless the
\* relation's unique key already holds it
M2MAdd(rel, u, id) ==
    IF Has(rel, u, id) THEN rel ELSE rel (+) SetToBag({<<u, id>>})

\* a faulty M2MRemove: the rows of every user for the target are deleted
M2MRemoveEverybody(rel, u, id) ==
    [e \in {x \in DOMAIN rel : x[2] # id} |-> rel[e]]

\* me.<relation>.remove(target): delete every row linking the two
M2MRemove(rel, u, id) == [e \in (DOMAIN rel) \ {<<u, id>>} |-> rel[e]]

\* a faulty ToggledRelation: the cancel branch removes nothing
ToggledRelationNoRemove(rel, exists, u, id) == M2MAdd(rel, u, id)

\* the write of the branch taken on exists()
ToggledRelation(rel, exists, u, id) ==
    IF exists THEN M2MRemove(rel, u, id) ELSE M2MAdd(rel, u, id)

\* the Response of the branch taken on exists()
ToggleResponse(kind, exists, u, id) ==
    IF exists
    THEN [NoResp EXCEPT !.status = HTTP_200_OK, !.message = CanceledMessage(kind)]
    ELSE [NoResp EXCEPT !.status = HTTP_200_OK, !.message = SuccessMessage(kind),
                        !.user = u, !.content_id = id]

SetRelation(kind, rel) ==
    /\ favorite_contents' = IF kind = "content_favorite" THEN rel ELSE favorite_contents
    /\ liked_contents'    = IF kind = "content_like" THEN rel ELSE liked_contents
    /\ liked_comments'    = IF kind = "comment_like" THEN rel ELSE liked_comments

\* the other workers that are handling a toggle of the same (actor, target)
Racing(p, kind, u, id) ==
    {q \in Workers \ {p} : req[q].op = kind /\ req[q].user = u /\ req[q].id = id}

\* is_authenticated, me = ...get(id=request.user.id), get_object_or_404(target).
\* The fields before and overlapped only observe the run: the membership when
\* the request arrived, and the workers whose toggle of the same pair was in
\* progress at some moment of this one.
ToggleBegin(p, kind, u, id) ==
    /\ req[p].op = "idle"
    /\ IF u = Anonymous
       THEN /\ resp' = [resp EXCEPT ![p] = Response(HTTP_403_FORBIDDEN)]
            /\ UNCHANGED req
       ELSE IF id \notin TargetIds(kind)
       THEN /\ resp' = [resp EXCEPT ![p] = Response(HTTP_404_NOT_FOUND)]
            /\ UNCHANGED req
       ELSE /\ req' = [q \in Workers |->
                         IF q = p
                         THEN [Idle EXCEPT !.op = kind, !.pc = "exists",
                                           !.user = u, !.id = id,
                                           !.before = Has(Relation(kind), u, id),
                                           !.overlapped = Racing(p, kind, u, id)]
                         ELSE IF q \in Racing(p, kind, u, id)
                         THEN [req[q] EXCEPT !.overlapped = @ \cup {p}]
                         ELSE req[q]]
            /\ resp' = [resp EXCEPT ![p] = NoResp]
    /\ UNCHANGED <<tables, relations, now, toggleLog>>

\* me.<relation>.filter(id=target_id).exists()
ToggleExists(p) ==
    /\ req[p].op \in Kinds
    /\ req[p].pc = "exists"
    /\ req' = [req EXCEPT ![p].exists = Has(Relation(req[p].op), req[p].user, req[p].id),
                          ![p].pc = "write"]
    /\ UNCHANGED <<tables, relations, now, resp, toggleLog>>

\* the entry of toggleLog for the toggle worker p completes in this step
LogEntry(p) ==
    [kind |-> req[p].op, user |-> req[p].user, id |-> req[p].id,
     before |-> req[p].before,
     status |-> resp'[p].status,
     message |-> resp'[p].message,
     after |-> Has(IF req[p].op = "content_favorite" THEN favorite_contents'
                   ELSE IF req[p].op = "content_like" THEN liked_contents'
                   ELSE liked_comments', req[p].user, req[p].id)]

Logged(entry) ==
    IF Len(toggleLog) < 2 THEN Append(toggleLog, entry)
    ELSE <<toggleLog[2], entry>>

\* the branch taken on exists(): remove + "canceled", or add + "success"
ToggleWrite(p) ==
    /\ req[p].op \in Kinds
    /\ req[p].pc = "write"
    /\ LET kind == req[p].op
           u == req[p].user
           id == req[p].id
       IN /\ SetRelation(kind, ToggledRelation(Relation(kind), req[p].exists, u, id))
          /\ resp' = [resp EXCEPT ![p] =
                        [ToggleResponse(kind, req[p].exists, u, id) EXCEPT
                            !.request = [NoRequest EXCEPT !.op = kind, !.user = u, !.id = id],
                            !.before = req[p].before,
                            !.overlapped = req[p].overlapped]]
          /\ req' = [req EXCEPT ![p] = Idle]
    /\ UNCHANGED <<tables, now>>

ToggleWriteLogged(p) == ToggleWrite(p) /\ toggleLog' = Logged(LogEntry(p))
ToggleWriteUnlogged(p) == ToggleWrite(p) /\ UNCHANGED toggleLog

(* ------------------------- create (POST handlers) ---------------------- *)
Texts == {"a", "b"}
\* request.data: a payload the serializer rejects, or one that sets the body
\* field (partial updates may leave it out: body = "")
Payloads == {[valid |-> FALSE, body |-> ""], [valid |-> TRUE, body |-> ""]}
            \cup {[valid |-> TRUE, body |-> t] : t \in Texts}

\* ContentListAPIView.post
ContentPost(p, u, data) ==
    /\ req[p].op = "idle"
    /\ u \in Users
    /\ Len(contentInfo) < MaxContent
    /\ IF ~data.valid
       THEN /\ resp' = [resp EXCEPT ![p] = Response(HTTP_400_BAD_REQUEST)]
            /\ UNCHANGED contentInfo
       ELSE /\ contentInfo' = Append(contentInfo,
                                     [userinfo |-> u, body |-> data.body,
                                      create_dt |-> now, is_visible |-> TRUE])
            /\ resp' = [resp EXCEPT ![p] = [Response(HTTP_201_CREATED) EXCEPT
                                            !.content_id = Len(contentInfo) + 1]]
    /\ UNCHANGED <<commentInfo, relations, now, req, toggleLog>>

\* CommentListAPIView.post
CommentPost(p, u, content_id, data) ==
    /\ req[p].op = "idle"
    /\ u \in Users
    /\ Len(commentInfo) < MaxComment
    /\ IF ~data.valid
       THEN /\ resp' = [resp EXCEPT ![p] = Response(HTTP_400_BAD_REQUEST)]
            /\ UNCHANGED commentInfo
       ELSE IF content_id \notin ContentIds       \* ContentInfo.objects.get raises DoesNotExist
       THEN /\ resp' = [resp EXCEPT ![p] = Response(HTTP_500_INTERNAL_SERVER_ERROR)]
            /\ UNCHANGED commentInfo
       ELSE /\ commentInfo' = Append(commentInfo,
                                     [userinfo |-> u, contentinfo |-> content_id,
                                      body |-> data.body,
                                      create_dt |-> now, is_visible |-> TRUE])
            /\ resp' = [resp EXCEPT ![p] = [Response(HTTP_201_CREATED) EXCEPT
                                            !.content_id = Len(commentInfo) + 1]]
    /\ UNCHANGED <<contentInfo, relations, now, req, toggleLog>>

(* --------------------- update / soft delete (owner only) --------------- *)
Table(model) == IF model = "content" THEN contentInfo ELSE commentInfo

\* a faulty RowIds: get_row looks among the visible rows only
RowIdsVisible(model) == {id \in DOMAIN Table(model) : Table(model)[id].is_visible}

\* get_row: the ids get_object_or_404(Model, pk=...) finds
RowIds(model) == DOMAIN Table(model)

SetTable(model, id, row) ==
    /\ contentInfo' = IF model = "content" THEN [contentInfo EXCEPT ![id] = row]
                      ELSE contentInfo
    /\ commentInfo' = IF model = "comment" THEN [commentInfo EXCEPT ![id] = row]
                      ELSE commentInfo

\* a faulty IsOwner: the guard lets everybody through
IsOwnerAnybody(u, row) == TRUE

\* request.user.id != row.userinfo.id  ->  403
IsOwner(u, row) == u = row.userinfo

\* the request a response of the detail views answers (observation only)
DetailRequest(op, model, u, id, data) ==
    [op |-> op, model |-> model, user |-> u, id |-> id, valid |-> data.valid]

\* get_row (get_object_or_404), the ownership check and, for put, is_valid
DetailBegin(p, op, model, u, id, data) ==
    /\ req[p].op = "idle"
    /\ op \in {"put", "delete"}
    /\ u \in Users
    /\ LET request == DetailRequest(op, model, u, id, data)
       IN IF id \notin RowIds(model)
          THEN /\ resp' = [resp EXCEPT ![p] = Answer(HTTP_404_NOT_FOUND, request)]
               /\ UNCHANGED req
          ELSE IF ~IsOwner(u, Table(model)[id])
          THEN /\ resp' = [resp EXCEPT ![p] = Answer(HTTP_403_FORBIDDEN, request)]
               /\ UNCHANGED req
          ELSE IF op = "put" /\ ~data.valid
          THEN /\ resp' = [resp EXCEPT ![p] = Answer(HTTP_400_BAD_REQUEST, request)]
               /\ UNCHANGED req
          ELSE /\ req' = [req EXCEPT ![p] =
                            [Idle EXCEPT !.op = op, !.pc = "save", !.model = model,
                                         !.user = u, !.id = id,
                                         !.row = Table(model)[id],
                                         !.data = data]]
               /\ resp' = [resp EXCEPT ![p] = NoResp]
    /\ UNCHANGED <<tables, relations, now, toggleLog>>

\* serializer.save() of a partial update: the loaded instance, with the
\* validated fields set, is written back whole
UpdatedRow(row, data) ==
    IF data.body = "" THEN row ELSE [row EXCEPT !.body = data.body]

\* row.is_visible = False; row.save(): the loaded instance written back whole
DeletedRow(row) == [row EXCEPT !.is_visible = FALSE]

PutSave(p) ==
    /\ req[p].op = "put"
    /\ req[p].pc = "save"
    /\ LET model == req[p].model
           id == req[p].id
       IN /\ SetTable(model, id, UpdatedRow(req[p].row, req[p].data))
          /\ resp' = [resp EXCEPT ![p] =
                        Answer(IF model = "content" THEN HTTP_200_OK
                               ELSE HTTP_202_ACCEPTED,
                               DetailRequest("put", model, req[p].user, id, req[p].data))]
    /\ req' = [req EXCEPT ![p] = Idle]
    /\ UNCHANGED <<relations, now, toggleLog>>

DeleteSave(p) ==
    /\ req[p].op = "delete"
    /\ req[p].pc = "save"
    /\ SetTable(req[p].model, req[p].id, DeletedRow(req[p].row))
    /\ resp' = [resp EXCEPT ![p] =
                  Answer(HTTP_204_NO_CONTENT,
                         DetailRequest("delete", req[p].model, req[p].user, req[p].id,
                                       req[p].data))]
    /\ req' = [req EXCEPT ![p] = Idle]
    /\ UNCHANGED <<relations, now, toggleLog>>

(* -------------------------------- clock -------------------------------- *)
AdvanceClock(d) ==
    /\ d \in {1, TicksPerDay}
    /\ (now + d) \div TicksPerDay <= MaxDay
    /\ (now + d) % TicksPerDay <= MaxSubDay
    /\ now' = now + d
    /\ UNCHANGED <<tables, relations, req, resp, toggleLog>>

(* ---------------------------- query strings ---------------------------- *)
\* query_params.get(name): None when the parameter is absent, else its text
None == [given |-> FALSE, s |-> <<>>]
Str(chars) == [given |-> TRUE, s |-> chars]
Digits == <<"0", "1", "2", "3", "4", "5", "6", "7", "8", "9">>

\* truth value of "if favorite_by:" (None and "" are both false)
Truthy(q) == q.given /\ Len(q.s) > 0

\* str.isdecimal()
isdecimal(q) ==
    /\ Len(q.s) > 0
    /\ \A i \in 1..Len(q.s) : \E d \in 1..10 : Digits[d] = q.s[i]

DigitValue(ch) == (CHOOSE d \in 1..10 : Digits[d] = ch) - 1

RECURSIVE int(_)
\* int(text) of a decimal text
int(chars) ==
    IF Len(chars) = 0 THEN 0
    ELSE 10 * int(SubSeq(chars, 1, Len(chars) - 1)) + DigitValue(chars[Len(chars)])

(* ------------------------- annotate (feed rows) ------------------------ *)
\* timezone.now().replace(microsecond=0)
TruncatedNow == now - (now % TicksPerSecond)

\* FLOOR((now - create_dt) / one day)
Duration(create_dt) == (TruncatedNow - create_dt) \div TicksPerDay

\* The rows the annotated query joins to content c: one per pair of a comment
\* on c (LEFT JOIN comments_on_content) and a like of c (JOIN liked_by).  Under liked-by the like join is the one the filter already
\* restricted to that user.
Null == <<>>

JoinedComments(c) ==
    LET cs == {<<k>> : k \in {j \in CommentIds : commentInfo[j].contentinfo = c}}
    IN IF cs = {} THEN {Null} ELSE cs

JoinedLikes(c, base) ==
    IF base.by = "liked-by"
    THEN {<<base.user, n>> : n \in 1..CopiesIn(<<base.user, c>>, liked_contents)}
    ELSE LET ls == UNION {{<<u, n>> : n \in 1..CopiesIn(<<u, c>>, liked_contents)} :
                          u \in Users}
         IN IF ls = {} THEN {Null} ELSE ls

JoinRows(c, base) == JoinedComments(c) \X JoinedLikes(c, base)

\* Count(F("comments_on_content"))
CommentCount(c, base) == Cardinality({r \in JoinRows(c, base) : r[1] # Null})

\* Count(F("liked_by"))
LikeCount(c, base) == Cardinality({r \in JoinRows(c, base) : r[2] # Null})

\* a faulty ArticlePoint: a comment weighs no more than a like
ArticlePointFlat(duration, comment_count, like_count) ==
    -5 * duration + comment_count + like_count

\* -5 * F("duration") + 3 * F("comment_count") + F("like_count")
ArticlePoint(duration, comment_count, like_count) ==
    -5 * duration + 3 * comment_count + like_count

Annotated(c, base) ==
    [id |-> c,
     userinfo |-> contentInfo[c].userinfo,
     create_dt |-> contentInfo[c].create_dt,
     comment_count |-> CommentCount(c, base),
     like_count |-> LikeCount(c, base),
     duration |-> Duration(contentInfo[c].create_dt),
     article_point |-> ArticlePoint(Duration(contentInfo[c].create_dt),
                                    CommentCount(c, base), LikeCount(c, base))]

(* ------------------------------ ordering ------------------------------- *)
\* a faulty Precedes: the default order forgets the creation time
PrecedesScoreOnly(order_by, a, b) ==
    IF order_by = "new" THEN a.create_dt >= b.create_dt
    ELSE a.article_point >= b.article_point

\* order_by("-create_dt") / order_by("-article_point", "-create_dt"):
\* row a may come before row b
Precedes(order_by, a, b) ==
    IF order_by = "new" THEN a.create_dt >= b.create_dt
    ELSE \/ a.article_point > b.article_point
         \/ a.article_point = b.article_point /\ a.create_dt >= b.create_dt

\* every arrangement of the rows of a queryset, each row once
Arrangements(rows) ==
    {q \in [1..Cardinality(rows) -> rows] :
        \A i, j \in DOMAIN q : i # j => q[i] # q[j]}

(* ------------------------- ContentListAPIView.get ---------------------- *)
VisibleContents == {c \in ContentIds : contentInfo[c].is_visible}

NoFilter == [by |-> "", user |-> 0]

\* the if / elif chain over favorite_by, liked_by, user: the selector used,
\* "406" for InvalidQueryParamsException
ContentSelector(favorite_by, liked_by, user) ==
    IF Truthy(favorite_by)
    THEN IF isdecimal(favorite_by) THEN [by |-> "favorite-by", user |-> int(favorite_by.s)]
         ELSE [by |-> "406", user |-> 0]
    ELSE IF Truthy(liked_by)
    THEN IF isdecimal(liked_by) THEN [by |-> "liked-by", user |-> int(liked_by.s)]
         ELSE [by |-> "406", user |-> 0]
    ELSE IF Truthy(user)
    THEN IF isdecimal(user) THEN [by |-> "user", user |-> int(user.s)]
         ELSE [by |-> "406", user |-> 0]
    ELSE NoFilter

\* the request a response of the list views answers (observation only):
\* valid tells whether every selector supplied is the text of an integer >= 0
QueryRequest(op, selectors) ==
    [NoRequest EXCEPT !.op = op,
                      !.valid = \A i \in DOMAIN selectors :
                                   selectors[i].given => isdecimal(selectors[i])]

\* get_user_model().objects.get(pk=...) raises DoesNotExist
UserMissing(base) == base.by \in {"favorite-by", "liked-by"} /\ base.user \notin Users

\* a faulty ContentBase: the selectors forget is_visible=True
ContentBaseAll(base) ==
    CASE base.by = "favorite-by" -> {c \in ContentIds : Has(favorite_contents, base.user, c)}
      [] base.by = "liked-by"    -> {c \in ContentIds : Has(liked_contents, base.user, c)}
      [] base.by = "user"        -> {c \in ContentIds : contentInfo[c].userinfo = base.user}
      [] OTHER                   -> ContentIds

\* rows = ....filter(is_visible=True ...)
ContentBase(base) ==
    CASE base.by = "favorite-by" ->
            {c \in VisibleContents : Has(favorite_contents, base.user, c)}
      [] base.by = "liked-by" ->
            {c \in VisibleContents : Has(liked_contents, base.user, c)}
      [] base.by = "user" ->
            {c \in VisibleContents : contentInfo[c].userinfo = base.user}
      [] OTHER -> VisibleContents

ContentRows(base) == {Annotated(c, base) : c \in ContentBase(base)}

\* the results get_queryset may return for a well-formed selector
\* (rows with equal keys come in any order)
ContentList(order_by, base) ==
    {q \in Arrangements(ContentRows(base)) :
        \A i, j \in DOMAIN q : i < j => Precedes(order_by, q[i], q[j])}

ListContent(p, order_by, favorite_by, liked_by, user) ==
    /\ req[p].op = "idle"
    /\ LET base == ContentSelector(favorite_by, liked_by, user)
           request == QueryRequest("list_content", <<favorite_by, liked_by, user>>)
       IN IF base.by = "406"
          THEN resp' = [resp EXCEPT ![p] = Answer(HTTP_406_NOT_ACCEPTABLE, request)]
          ELSE IF UserMissing(base)
          THEN resp' = [resp EXCEPT ![p] =
                          Answer(HTTP_500_INTERNAL_SERVER_ERROR, request)]
          ELSE \E rows \in ContentList(order_by, base) :
                  resp' = [resp EXCEPT ![p] =
                             [Answer(HTTP_200_OK, request) EXCEPT !.body = rows]]
    /\ UNCHANGED <<tables, relations, now, req, toggleLog>>

(* ------------------------ ContentDetailAPIView.get --------------------- *)
\* get_queryset of the detail view: none() or the one annotated row
ContentDetail(content_id) ==
    IF content_id \in VisibleContents THEN <<Annotated(content_id, NoFilter)>> ELSE <<>>

GetContent(p, content_id) ==
    /\ req[p].op = "idle"
    /\ resp' = [resp EXCEPT ![p] =
                  [Answer(HTTP_200_OK, [NoRequest EXCEPT !.op = "get_content",
                                                         !.id = content_id])
                   EXCEPT !.body = ContentDetail(content_id)]]
    /\ UNCHANGED <<tables, relations, now, req, toggleLog>>

(* ------------------------- CommentListAPIView.get ---------------------- *)
VisibleComments == {k \in CommentIds : commentInfo[k].is_visible}

CommentRow(k) ==
    [id |-> k, userinfo |-> commentInfo[k].userinfo,
     contentinfo |-> commentInfo[k].contentinfo,
     create_dt |-> commentInfo[k].create_dt]

\* the if / elif chain over liked_by, user of the global comment list
CommentSelector(liked_by, user) ==
    IF Truthy(liked_by)
    THEN IF isdecimal(liked_by) THEN [by |-> "liked-by", user |-> int(liked_by.s)]
         ELSE [by |-> "406", user |-> 0]
    ELSE IF Truthy(user)
    THEN IF isdecimal(user) THEN [by |-> "user", user |-> int(user.s)]
         ELSE [by |-> "406", user |-> 0]
    ELSE NoFilter

CommentBase(base) ==
    CASE base.by = "liked-by" ->
            {k \in VisibleComments : Has(liked_comments, base.user, k)}
      [] base.by = "user" ->
            {k \in VisibleComments : commentInfo[k].userinfo = base.user}
      [] OTHER -> VisibleComments

Earliest(a, b) == a.create_dt <= b.create_dt
Latest(a, b) == a.create_dt >= b.create_dt

\* content_id given: the thread, order_by("create_dt")
CommentThread(content_id) ==
    {q \in Arrangements({CommentRow(k) : k \in {j \in VisibleComments :
                                   commentInfo[j].contentinfo = content_id}}) :
        \A i, j \in DOMAIN q : i < j => Earliest(q[i], q[j])}

\* no content_id: the selected comments, order_by("-create_dt")
CommentFeed(base) ==
    {q \in Arrangements({CommentRow(k) : k \in CommentBase(base)}) :
        \A i, j \in DOMAIN q : i < j => Latest(q[i], q[j])}

\* self.kwargs.get("content_id") of the route without <int:content_id>: None
NoKwarg == -1

\* content_id is the <int:content_id> of the route, or NoKwarg; the request
\* observed is "list_thread" for the first route, "list_comments" for the other
ListComments(p, content_id, liked_by, user) ==
    /\ req[p].op = "idle"
    /\ IF content_id # NoKwarg /\ content_id # 0              \* if content_id:
       THEN \E rows \in CommentThread(content_id) :
               resp' = [resp EXCEPT ![p] =
                          [Answer(HTTP_200_OK,
                                  [QueryRequest("list_thread", <<liked_by, user>>)
                                   EXCEPT !.id = content_id])
                           EXCEPT !.body = rows]]
       ELSE LET base == CommentSelector(liked_by, user)
                request == [QueryRequest(IF content_id = NoKwarg THEN "list_comments"
                                         ELSE "list_thread", <<liked_by, user>>)
                            EXCEPT !.id = content_id]
            IN IF base.by = "406"
               THEN resp' = [resp EXCEPT ![p] = Answer(HTTP_406_NOT_ACCEPTABLE, request)]
               ELSE IF UserMissing(base)
               THEN resp' = [resp EXCEPT ![p] =
                               Answer(HTTP_500_INTERNAL_SERVER_ERROR, request)]
               ELSE \E rows \in CommentFeed(base) :
                       resp' = [resp EXCEPT ![p] =
                                  [Answer(HTTP_200_OK, request) EXCEPT !.body = rows]]
    /\ UNCHANGED <<tables, relations, now, req, toggleLog>>

(* ---------------------------- specifications --------------------------- *)
InitRequests ==
    /\ req = [p \in Workers |-> Idle]
    /\ resp = [p \in Workers |-> NoResp]
    /\ toggleLog = <<>>

InitEmpty ==
    /\ contentInfo = <<>>
    /\ commentInfo = <<>>
    /\ favorite_contents = EmptyBag
    /\ liked_contents = EmptyBag
    /\ liked_comments = EmptyBag
    /\ now = 0
    /\ InitRequests

\* a store with two content items half a second apart, by different authors,
\* and one comment on each; nothing is liked yet
InitSeeded ==
    /\ contentInfo = <<[userinfo |-> 1, body |-> "a", create_dt |-> 0, is_visible |-> TRUE],
                       [userinfo |-> 2, body |-> "a", create_dt |-> 1, is_visible |-> TRUE]>>
    /\ commentInfo = <<[userinfo |-> 2, contentinfo |-> 1, body |-> "a",
                        create_dt |-> 1, is_visible |-> TRUE],
                       [userinfo |-> 1, contentinfo |-> 2, body |-> "a",
                        create_dt |-> 1, is_visible |-> TRUE]>>
    /\ favorite_contents = EmptyBag
    /\ liked_contents = EmptyBag
    /\ liked_comments = EmptyBag
    /\ now = 1
    /\ InitRequests

Actors == Users \cup {Anonymous}
Models == {"content", "comment"}
SeededIds == 1..2
TargetIdsTried == 1..3      \* id 3 names no row of the seeded store

\* query strings tried: absent, empty, not decimal, and the decimal text of
\* every user id and of one id that belongs to no user
QueryValues ==
    {None, Str(<<>>), Str(<<"x">>), Str(<<"-", "1">>)}
    \cup {Str(<<Digits[u + 1]>>) : u \in 1..(NumUsers + 1)}
OrderValues == {"new", ""}

(* requests served one at a time: the content feed over a store that changes *)
LikeRequest(p) ==
    \E u \in Users, id \in SeededIds : ToggleBegin(p, "content_like", u, id)

FavoriteRequest(p) ==
    \E id \in SeededIds : ToggleBegin(p, "content_favorite", 1, id)

DeleteRequest(p) ==
    \/ \E id \in SeededIds :
          DetailBegin(p, "delete", "content", contentInfo[id].userinfo, id, NoData)
    \/ DetailBegin(p, "delete", "comment", commentInfo[1].userinfo, 1, NoData)

\* one selector at a time, with a well-formed user id
UserIdTexts == {Str(<<Digits[u + 1]>>) : u \in 1..(NumUsers + 1)}
ListContentRequest(p) ==
    \E order_by \in OrderValues :
        \/ ListContent(p, order_by, None, None, None)
        \/ \E q \in UserIdTexts :
              \/ ListContent(p, order_by, q, None, None)
              \/ ListContent(p, order_by, None, q, None)
              \/ ListContent(p, order_by, None, None, q)

GetContentRequest(p) == \E id \in TargetIdsTried : GetContent(p, id)

Next ==
    \/ LikeRequest(1)
    \/ FavoriteRequest(1)
    \/ ToggleExists(1)
    \/ ToggleWriteUnlogged(1)
    \/ DeleteRequest(1)
    \/ DeleteSave(1)
    \/ ListContentRequest(1)
    \/ GetContentRequest(1)

Spec == InitSeeded /\ [][Next]_vars

(* requests served one at a time: every query string of the two list views *)
AnyListContentRequest(p) ==
    \E order_by \in OrderValues, favorite_by, liked_by, user \in QueryValues :
        ListContent(p, order_by, favorite_by, liked_by, user)

\* the comment routes tried: without content id, and with the ids 0, 1, 2
CommentRouteIds == {NoKwarg, 0} \cup SeededIds

AnyListCommentsRequest(p) ==
    \E content_id \in CommentRouteIds, liked_by, user \in QueryValues :
        ListComments(p, content_id, liked_by, user)

NextQuery ==
    \/ AnyListContentRequest(1)
    \/ AnyListCommentsRequest(1)
    \/ \E id \in SeededIds : ToggleBegin(1, "content_like", 1, id)
    \/ ToggleBegin(1, "comment_like", 1, 1)
    \/ ToggleExists(1)
    \/ ToggleWriteUnlogged(1)

SpecQuery == InitSeeded /\ [][NextQuery]_vars

(* requests served one at a time: toggles of every relation *)
ToggleRequest(p) ==
    \E kind \in Kinds, u \in Actors, id \in {1, 3} : ToggleBegin(p, kind, u, id)

NextToggle ==
    \/ ToggleRequest(1)
    \/ ToggleExists(1)
    \/ ToggleWriteLogged(1)

SpecToggle == InitSeeded /\ [][NextToggle]_vars

(* requests served one at a time, from an empty store: content is created *)
(* and read while the clock advances by half seconds and by days          *)
NextClock ==
    \/ \E u \in Users, valid \in BOOLEAN :
          ContentPost(1, u, [valid |-> valid, body |-> "a"])
    \/ AdvanceClock(1)
    \/ AdvanceClock(TicksPerDay)
    \/ \E order_by \in OrderValues : ListContent(1, order_by, None, None, None)
    \/ \E id \in 1..MaxContent : GetContent(1, id)

SpecClock == InitEmpty /\ [][NextClock]_vars

(* toggles of one pair by every worker, interleaved at the database accesses *)
NextRace ==
    \E p \in Workers :
        \/ \E kind \in Kinds : ToggleBegin(p, kind, 1, 1)
        \/ ToggleExists(p)
        \/ ToggleWriteUnlogged(p)

SpecRace == InitSeeded /\ [][NextRace]_vars

(* requests served one at a time: updates and soft deletes by anybody *)
DetailRequestBegin(p) ==
    \E op \in {"put", "delete"}, model \in Models, u \in Users, id \in TargetIdsTried,
       data \in Payloads :
        DetailBegin(p, op, model, u, id, IF op = "put" THEN data ELSE NoData)

NextGuard ==
    \/ DetailRequestBegin(1)
    \/ PutSave(1)
    \/ DeleteSave(1)

SpecGuard == InitSeeded /\ [][NextGuard]_vars

(* updates and soft deletes of one content item and one comment by their *)
(* owners, on every worker, interleaved at the database accesses         *)
OwnerRequestBegin(p) ==
    \E op \in {"put", "delete"}, model \in Models :
        DetailBegin(p, op, model, Table(model)[1].userinfo, 1,
                    IF op = "put" THEN [valid |-> TRUE, body |-> "b"] ELSE NoData)

NextMutate ==
    \E p \in Workers :
        \/ OwnerRequestBegin(p)
        \/ PutSave(p)
        \/ DeleteSave(p)

SpecMutate == InitSeeded /\ [][NextMutate]_vars

(* requests served one at a time: toggles of every relation by user 1 while *)
(* content 1 and comment 1 are soft-deleted by their owners                  *)
OwnerDeleteRequest(p) ==
    \E model \in Models :
        DetailBegin(p, "delete", model, Table(model)[1].userinfo, 1, NoData)

NextDeleted ==
    \/ OwnerDeleteRequest(1)
    \/ DeleteSave(1)
    \/ \E kind \in Kinds, id \in {1, 3} : ToggleBegin(1, kind, 1, id)
    \/ ToggleExists(1)
    \/ ToggleWriteUnlogged(1)

SpecDeleted == InitSeeded /\ [][NextDeleted]_vars

(* requests served one at a time: toggles of every relation by anybody, on *)
(* a target that is stored and on one that is not                         *)
NextFrame ==
    \/ ToggleRequest(1)
    \/ ToggleExists(1)
    \/ ToggleWriteUnlogged(1)

SpecFrame == InitSeeded /\ [][NextFrame]_vars

(* requests served one at a time, from an empty store: one content item is *)
(* created, commented and liked, and read while the clock advances by days *)
NextScore ==
    \/ contentInfo = <<>> /\ ContentPost(1, 1, [valid |-> TRUE, body |-> "a"])
    \/ \E content_id \in 1..2, valid \in BOOLEAN :
          CommentPost(1, 2, content_id, [valid |-> valid, body |-> "a"])
    \/ \E u \in Users : ToggleBegin(1, "content_like", u, 1)
    \/ ToggleExists(1)
    \/ ToggleWriteUnlogged(1)
    \/ AdvanceClock(TicksPerDay)
    \/ \E order_by \in OrderValues : ListContent(1, order_by, None, None, None)
    \/ GetContent(1, 1)

SpecScore == InitEmpty /\ [][NextScore]_vars

(* toggles of one pair by every worker, interleaved at the database        *)
(* accesses; the toggles in progress at one time address the same relation *)
(* (toggles of different relations read and write nothing in common)       *)
NextSet ==
    \E p \in Workers :
        \/ \E kind \in Kinds :
              /\ \A q \in Workers : req[q].op \in {"idle", kind}
              /\ ToggleBegin(p, kind, 1, 1)
        \/ ToggleExists(p)
        \/ ToggleWriteUnlogged(p)

SpecSet == InitSeeded /\ [][NextSet]_vars

(* ------------------------------- claims -------------------------------- *)
IsSuccess(message) == message \in {SuccessMessage(kind) : kind \in Kinds}
IsCanceled(message) == message \in {CanceledMessage(kind) : kind \in Kinds}

SamePair(a, b) == a.kind = b.kind /\ a.user = b.user /\ a.id = b.id

\* C1: two toggles by the same actor on the same target, served one after
\* the other, leave the membership of the pair as it was before the first,
\* and their responses are opposite: "success" then "canceled", or "canceled"
\* then "success".
C1_ToggleTwiceRestores ==
    (Len(toggleLog) = 2 /\ SamePair(toggleLog[1], toggleLog[2])) =>
        /\ toggleLog[2].after = toggleLog[1].before
        /\ IsSuccess(toggleLog[1].message) => IsCanceled(toggleLog[2].message)
        /\ IsCanceled(toggleLog[1].message) => IsSuccess(toggleLog[2].message)
        /\ IsSuccess(toggleLog[1].message) \/ IsCanceled(toggleLog[1].message)

\* a pair that was toggled on and then off again
C1_Witness ==
    /\ Len(toggleLog) = 2
    /\ SamePair(toggleLog[1], toggleLog[2])
    /\ IsSuccess(toggleLog[1].message)
    /\ IsCanceled(toggleLog[2].message)
    /\ ~toggleLog[2].after

\* C2: two concurrent toggles by the same actor on the same target are
\* serialized: both answer 200, one reports "success" and the other
\* "canceled", and the pair ends in the membership it had when they arrived.
C2_ConcurrentTogglesSerialized ==
    \A p, q \in Workers :
        ( /\ p # q
          /\ \A w \in Workers : req[w].op = "idle"
          /\ resp[p].request.op \in Kinds
          /\ resp[p].request = resp[q].request
          /\ q \in resp[p].overlapped
          /\ p \in resp[q].overlapped )
        => /\ resp[p].status = HTTP_200_OK /\ resp[q].status = HTTP_200_OK
           /\ IsSuccess(resp[p].message) # IsSuccess(resp[q].message)
           /\ IsCanceled(resp[p].message) # IsCanceled(resp[q].message)
           /\ Has(Relation(resp[p].request.op), resp[p].request.user,
                  resp[p].request.id) = resp[p].before

\* the well-formed selectors of listContent, and the ids getContent is asked for
Selectors ==
    {NoFilter} \cup {[by |-> b, user |-> u] : b \in {"favorite-by", "liked-by", "user"},
                                              u \in Users}
LookupIds == 1..(Len(contentInfo) + 1)

Ids(rows) == {rows[i].id : i \in DOMAIN rows}

\* C3: a soft-deleted content item is in no listContent result, whatever the
\* selector and the sort mode, and getContent of its id is empty; getContent
\* of an id that does not exist is empty too.
C3_SoftDeletedHidden ==
    \A c \in LookupIds :
        (c \notin ContentIds \/ ~contentInfo[c].is_visible) =>
            /\ ContentDetail(c) = <<>>
            /\ \A order_by \in OrderValues, base \in Selectors :
                  \A rows \in ContentList(order_by, base) : c \notin Ids(rows)

\* content 1 is soft-deleted while user 1 still likes and favorites it, and
\* the feed of the items user 1 likes has just been served without it
C3_Witness ==
    /\ ~contentInfo[1].is_visible
    /\ Has(liked_contents, 1, 1) /\ Has(favorite_contents, 1, 1)
    /\ Has(liked_contents, 1, 2)
    /\ resp[1].request.op = "list_content"
    /\ resp[1].status = HTTP_200_OK
    /\ resp[1].body \in ContentList("", [by |-> "liked-by", user |-> 1])
    /\ Ids(resp[1].body) = {2}

CommentsOn(c) == {k \in CommentIds : commentInfo[k].contentinfo = c}
VisibleCommentsOn(c) == {k \in CommentsOn(c) : commentInfo[k].is_visible}
Likers(c) == {u \in Users : Has(liked_contents, u, c)}

\* every row listContent or getContent may return in this state
RowsReturned ==
    UNION {{rows[i] : i \in DOMAIN rows} :
             rows \in UNION {ContentList(order_by, base) :
                               order_by \in OrderValues, base \in Selectors}}
    \cup UNION {{ContentDetail(c)[i] : i \in DOMAIN ContentDetail(c)} : c \in LookupIds}

\* C4: the comment_count of every row returned is the number of comments on
\* the item whose visibility flag is true.
C4_CommentCountVisibleOnly ==
    \A row \in RowsReturned :
        row.comment_count = Cardinality(VisibleCommentsOn(row.id))

\* C5: the like_count of every row returned is the number of distinct users
\* who like the item, whatever its comments, and its comment_count does not
\* depend on how many users like it.
C5_LikeCountDistinctUsers ==
    \A row \in RowsReturned :
        /\ row.like_count = Cardinality(Likers(row.id))
        /\ row.comment_count = Cardinality(CommentsOn(row.id))

\* C6: a listContent result with sort mode "new" is in descending order of
\* creation time; with any other sort mode every adjacent pair is in
\* descending order of popularity score and, at equal scores, of creation time.
C6_ListOrdered ==
    \A order_by \in OrderValues, base \in Selectors :
        \A rows \in ContentList(order_by, base) :
            \A i \in 1..(Len(rows) - 1) :
                IF order_by = "new"
                THEN rows[i].create_dt >= rows[i + 1].create_dt
                ELSE /\ rows[i].article_point >= rows[i + 1].article_point
                     /\ rows[i].article_point = rows[i + 1].article_point
                           => rows[i].create_dt >= rows[i + 1].create_dt

\* the default feed has just been served with two items of equal score, the
\* newer one first and the liked one second
C6_Witness ==
    /\ resp[1].request.op = "list_content"
    /\ resp[1].body \in ContentList("", NoFilter)
    /\ Len(resp[1].body) = 2
    /\ resp[1].body[1].article_point = resp[1].body[2].article_point
    /\ resp[1].body[1].create_dt > resp[1].body[2].create_dt
    /\ resp[1].body[2].like_count > 0

\* C7: an update or delete of a content item or comment by a user who is not
\* its owner is answered 403, whether or not the payload is valid, and leaves
\* both tables as they were.
C7_NonOwnerForbidden ==
    [][\A p \in Workers :
          LET r == resp'[p].request
          IN ( /\ resp'[p] # resp[p]
               /\ r.op \in {"put", "delete"}
               /\ r.id \in DOMAIN Table(r.model)
               /\ r.user # Table(r.model)[r.id].userinfo )
             => /\ resp'[p].status = HTTP_403_FORBIDDEN
                /\ UNCHANGED tables]_vars

\* a non-owner's update with an invalid payload was answered 403 after the
\* owner had changed the comment
C7_Witness ==
    /\ resp[1].request.op = "put"
    /\ resp[1].request.model = "comment"
    /\ ~resp[1].request.valid
    /\ resp[1].request.id \in CommentIds
    /\ resp[1].request.user # commentInfo[resp[1].request.id].userinfo
    /\ resp[1].status = HTTP_403_FORBIDDEN
    /\ commentInfo[resp[1].request.id].body = "b"

\* C8: a listContent or global listComments request that supplies a user-id
\* selector which is not the text of an integer >= 0 is answered 406, also
\* when the selector is empty or another, valid selector is supplied with it.
C8_MalformedSelectorRejected ==
    \A p \in Workers :
        (resp[p].request.op \in {"list_content", "list_comments"}
         /\ ~resp[p].request.valid)
        => resp[p].status = HTTP_406_NOT_ACCEPTABLE

\* C9: the age_days of every row returned is >= 0, it does not decrease when
\* the clock advances, and rows with the same creation time have the same
\* age_days.
C9_AgeNonNegativeMonotone ==
    [][/\ \A row \in RowsReturned : row.duration >= 0
       /\ \A a, b \in RowsReturned : a.create_dt = b.create_dt => a.duration = b.duration
       /\ \A c \in VisibleContents :
             Duration(contentInfo[c].create_dt)' >= Duration(contentInfo[c].create_dt)]_vars

\* C10: the visibility flag of a content item or comment never goes from
\* false back to true.
C10_SoftDeleteOneWay ==
    [][/\ \A c \in ContentIds : ~contentInfo[c].is_visible => ~contentInfo'[c].is_visible
       /\ \A k \in CommentIds : ~commentInfo[k].is_visible => ~commentInfo'[k].is_visible]_vars

\* the rows of the table a toggle of this kind addresses, visible or not
Stored(kind) == IF kind = "comment_like" THEN DOMAIN commentInfo ELSE DOMAIN contentInfo

\* the relation of a kind of toggle after the step
RelationAfter(kind) ==
    CASE kind = "content_favorite" -> favorite_contents'
      [] kind = "content_like"     -> liked_contents'
      [] kind = "comment_like"     -> liked_comments'

\* C11: a soft delete leaves every like and favorite relation as it was; a
\* toggle by a user is answered 404 exactly when the target id is not in
\* storage, and on a stored target, soft-deleted or not, it flips the
\* membership of the pair and answers 200 with "canceled" when the pair was
\* present and "success" when it was absent.
C11_ToggleIgnoresSoftDelete ==
    [][/\ tables' # tables => relations' = relations
       /\ \A kind \in Kinds, u \in Users, id \in TargetIdsTried :
             ToggleBegin(1, kind, u, id) =>
                IF id \in Stored(kind)
                THEN /\ req'[1].op = kind /\ req'[1].pc = "exists"
                     /\ resp'[1].status # HTTP_404_NOT_FOUND
                ELSE /\ resp'[1].status = HTTP_404_NOT_FOUND
                     /\ req'[1] = Idle
       /\ (req[1].op \in Kinds /\ req[1].pc = "write" /\ req'[1].op = "idle") =>
             LET was == Has(Relation(req[1].op), req[1].user, req[1].id)
                 is == Has(RelationAfter(req[1].op), req[1].user, req[1].id)
             IN /\ resp'[1].status = HTTP_200_OK
                /\ is = ~was
                /\ IF was THEN IsCanceled(resp'[1].message)
                   ELSE IsSuccess(resp'[1].message)]_vars

\* content 1 and comment 1 are soft-deleted, user 1 still likes content 1,
\* and the last request served was a like of comment 1, answered "success"
C11_Witness ==
    /\ ~contentInfo[1].is_visible /\ ~commentInfo[1].is_visible
    /\ Has(liked_contents, 1, 1)
    /\ resp[1].request.op = "comment_like" /\ resp[1].request.id = 1
    /\ resp[1].status = HTTP_200_OK /\ IsSuccess(resp[1].message)
    /\ Has(liked_comments, 1, 1)

\* C12: the article_point of every row listContent or getContent may return
\* is -5 * age_days + 3 * comment_count + like_count of that same row; a row
\* of age 2 with no comments and no likes scores -10, and with one comment
\* and one like -6.
C12_ScoreFormula ==
    \A row \in RowsReturned :
        /\ row.article_point = -5 * row.duration + 3 * row.comment_count + row.like_count
        /\ (row.duration = 2 /\ row.comment_count = 0 /\ row.like_count = 0)
              => row.article_point = -10
        /\ (row.duration = 2 /\ row.comment_count = 1 /\ row.like_count = 1)
              => row.article_point = -6

\* content 1, created two days ago, has one comment and one like, and its
\* detail has just been served with score -6
C12_Witness ==
    /\ 1 \in VisibleContents
    /\ now = contentInfo[1].create_dt + 2 * TicksPerDay
    /\ Cardinality(CommentsOn(1)) = 1 /\ Cardinality(Likers(1)) = 1
    /\ resp[1].request.op = "get_content" /\ resp[1].request.id = 1
    /\ resp[1].body = ContentDetail(1)
    /\ resp[1].body[1].duration = 2
    /\ resp[1].body[1].article_point = -6

Taxonomy ==
    {HTTP_200_OK, HTTP_201_CREATED, HTTP_202_ACCEPTED, HTTP_204_NO_CONTENT,
     HTTP_400_BAD_REQUEST, HTTP_403_FORBIDDEN, HTTP_404_NOT_FOUND,
     HTTP_406_NOT_ACCEPTABLE}

\* C14: every response has a status of the error taxonomy (none is the 500
\* of an unhandled error), and a listContent or global listComments request
\* whose selectors are all well-formed is answered 200, also when the id
\* belongs to no user.
C14_OutcomeInTaxonomy ==
    \A p \in Workers :
        /\ resp[p] # NoResp => resp[p].status \in Taxonomy
        /\ (resp[p].request.op \in {"list_content", "list_comments"}
            /\ resp[p].request.valid) => resp[p].status = HTTP_200_OK

\* at most one selector is supplied, and it is the text of an integer >= 0
OneWellFormedSelector(liked_by, user) ==
    /\ ~liked_by.given \/ ~user.given
    /\ liked_by.given => isdecimal(liked_by)
    /\ user.given => isdecimal(user)

\* the visible comments a well-formed selector of the global list selects
SelectedComments(liked_by, user) ==
    IF liked_by.given
    THEN {k \in CommentIds : /\ commentInfo[k].is_visible
                             /\ Has(liked_comments, int(liked_by.s), k)}
    ELSE IF user.given
    THEN {k \in CommentIds : /\ commentInfo[k].is_visible
                             /\ commentInfo[k].userinfo = int(user.s)}
    ELSE {k \in CommentIds : commentInfo[k].is_visible}

\* C15: listComments with a content id is answered 200 with exactly the
\* visible comments of that content, earliest first, whatever the liked-by
\* and user selectors are; listComments without a content id and with a
\* well-formed selector is answered 200 with exactly the visible comments
\* the selector selects, latest first.
C15_CommentListing ==
    [][\A content_id \in CommentRouteIds, liked_by, user \in QueryValues :
          ListComments(1, content_id, liked_by, user) =>
             LET body == resp'[1].body
             IN /\ (content_id # NoKwarg \/ OneWellFormedSelector(liked_by, user))
                      => resp'[1].status = HTTP_200_OK
                /\ resp'[1].status = HTTP_200_OK =>
                      /\ Cardinality(Ids(body)) = Len(body)
                      /\ \A k \in Ids(body) : commentInfo[k].is_visible
                      /\ IF content_id # NoKwarg
                         THEN /\ Ids(body) = {k \in CommentIds :
                                                /\ commentInfo[k].is_visible
                                                /\ commentInfo[k].contentinfo = content_id}
                              /\ \A i, j \in DOMAIN body :
                                    i < j => body[i].create_dt <= body[j].create_dt
                         ELSE /\ OneWellFormedSelector(liked_by, user)
                                    => Ids(body) = SelectedComments(liked_by, user)
                              /\ \A i, j \in DOMAIN body :
                                    i < j => body[i].create_dt >= body[j].create_dt]_vars

\* the table of a model after the step
TableAfter(model) == IF model = "content" THEN contentInfo' ELSE commentInfo'

\* C16: an update or delete is answered 404 exactly when its id is not in
\* storage; on a stored item, soft-deleted or not, a non-owner is answered
\* 403, the owner's delete is answered 204 and leaves the visibility flag
\* false, and the owner's update is answered as on a visible item (200 for
\* content, 202 for a comment, or the validation failure of its payload).
C16_MutationByRawId ==
    [][\A p \in Workers :
          LET r == resp'[p].request
              st == resp'[p].status
          IN (resp'[p] # resp[p] /\ r.op \in {"put", "delete"}) =>
                IF r.id \notin DOMAIN Table(r.model)
                THEN st = HTTP_404_NOT_FOUND /\ UNCHANGED tables
                ELSE IF r.user # Table(r.model)[r.id].userinfo
                THEN st = HTTP_403_FORBIDDEN
                ELSE IF r.op = "delete"
                THEN st = HTTP_204_NO_CONTENT /\ ~TableAfter(r.model)[r.id].is_visible
                ELSE IF r.valid
                THEN st = (IF r.model = "content" THEN HTTP_200_OK ELSE HTTP_202_ACCEPTED)
                ELSE st = HTTP_400_BAD_REQUEST]_vars

\* content 1 is soft-deleted and the last request served was an update of
\* it by its owner, answered 200
C16_Witness ==
    /\ ~contentInfo[1].is_visible
    /\ resp[1].request.op = "put" /\ resp[1].request.model = "content"
    /\ resp[1].request.id = 1
    /\ resp[1].request.user = contentInfo[1].userinfo
    /\ resp[1].status = HTTP_200_OK
    /\ contentInfo[1].body = "b"

\* C17: a toggle by an anonymous requester is answered 403 and a toggle by
\* a user on a target id that is not in storage is answered 404, and both
\* leave the tables and the relations as they were; the write of a toggle
\* leaves the tables, the other relations and every other entry of its own
\* relation as they were.
C17_ToggleFrame ==
    [][/\ \A kind \in Kinds, u \in Actors, id \in TargetIdsTried :
             (ToggleBegin(1, kind, u, id) /\ (u = Anonymous \/ id \notin Stored(kind))) =>
                /\ resp'[1].status = (IF u = Anonymous THEN HTTP_403_FORBIDDEN
                                      ELSE HTTP_404_NOT_FOUND)
                /\ UNCHANGED <<tables, relations>>
       /\ (req[1].op \in Kinds /\ req[1].pc = "write" /\ req'[1].op = "idle") =>
             /\ UNCHANGED tables
             /\ \A kind \in Kinds :
                   \A e \in DOMAIN Relation(kind) \cup DOMAIN RelationAfter(kind) :
                      (kind # req[1].op \/ e # <<req[1].user, req[1].id>>) =>
                         CopiesIn(e, RelationAfter(kind)) = CopiesIn(e, Relation(kind))]_vars

\* a toggle on a target id that is not in storage has just been answered 404
\* while both users like content 1 and user 1 has it among the favorites
C17_Witness ==
    /\ resp[1] = Response(HTTP_404_NOT_FOUND)
    /\ Has(liked_contents, 1, 1) /\ Has(liked_contents, 2, 1)
    /\ Has(favorite_contents, 1, 1)

\* C18: the write of a delete request changes nothing but the visibility
\* flag of its item: every other field of the item is as it was in storage
\* just before the write, also when an update was saved after the delete
\* request had read the item, and every other row is as it was.
C18_DeleteOnlyFlag ==
    [][\A p \in Workers :
          (req[p].op = "delete" /\ req[p].pc = "save" /\ req'[p].op = "idle") =>
             \A model \in Models :
                \A id \in DOMAIN Table(model) :
                   TableAfter(model)[id] =
                      IF model = req[p].model /\ id = req[p].id
                      THEN [Table(model)[id] EXCEPT !.is_visible = FALSE]
                      ELSE Table(model)[id]]_vars

====
